---- MODULE Spec2Model ----
(***************************************************************************)
(* Fetcher of src/main.py: total-page discovery, the binary search over    *)
(* page ordinals of a reverse-chronological listing, the page window       *)
(* around the boundary, and the detail fetches run on a thread pool.       *)
(*                                                                         *)
(* Dates are integers (a larger number is a more recent day).  A listing   *)
(* page is the sequence of the publication dates of its items, in listing  *)
(* order; an item is identified by <<page ordinal, position on the page>>. *)
(***************************************************************************)
EXTENDS Integers, Sequences, FiniteSets, TLC

\* Bounds of the model.
MaxPages == 3
MaxDate == 2
MaxItems == 2
PipePages == 2
PoolItems == 5

\* ThreadPoolExecutor(max_workers=4)
max_workers == 4

VARIABLES
    listing,      \* the source: listing[p] = dates of the items of page p
    date,         \* Fetcher.date, the target date
    total_page,   \* Fetcher.total_page
    pc,           \* position of the generator get_articles_with_date
    start,        \* locals of get_articles_with_date
    end,
    start_page,
    end_page,
    page,         \* loop variable of the for loop over the window
    fs,           \* futures of the current executor.map call, in submission order
    content,      \* items whose Article.content has been assigned
    tabs,         \* items whose detail tab (new_tab) is open
    out,          \* the items yielded to the consumer, with their content
    err,          \* the exception that left get_articles_with_date, or "none"
    probed,       \* page ordinals requested by the binary search, in order
    fetched,      \* page ordinals whose listing the for loop has requested
    submitted,    \* items submitted to the executor, in order
    failed,       \* items whose detail fetch met a failure
    failStage,    \* stage of the listing-side failure that ended the run
    badAt,        \* position of the malformed entry of the page being listed, or 0
    lastResp      \* the source's answer to the latest listing-session request

vars == <<listing, date, total_page, pc, start, end, start_page, end_page, page,
          fs, content, tabs, out, err, probed, fetched, submitted,
          failed, failStage, badAt, lastResp>>

searchVars == <<start, end, probed>>
windowVars == <<start_page, end_page, page, fetched>>
poolVars == <<fs, content, tabs, failed, submitted, badAt>>

----------------------------------------------------------------------------
\* Helpers

Min(S) == CHOOSE x \in S : \A y \in S : x <= y

Dates == 1..MaxDate

\* A page as far as get_date_range reads it: no item, one item, or a first
\* and a last item.
RangePages == {<<>>} \cup {<<a>> : a \in Dates} \cup {<<a, b>> : a \in Dates, b \in Dates}

SearchListings == UNION {[1..n -> RangePages] : n \in 0..MaxPages}

\* A listing of n pages with one day per page (page p holds day n + 1 - p),
\* each page with 0..MaxItems items.
DayPage(n, p, k) == [i \in 1..k |-> n + 1 - p]

DayListings ==
    UNION {{[p \in 1..n |-> DayPage(n, p, cnt[p])] : cnt \in [1..n -> 0..MaxItems]}
             : n \in 0..PipePages}

----------------------------------------------------------------------------
\* The Content Source and the listing client

\* Answers of the source to a request of a listing page: a listing, the
\* no-such-page redirect, a document without a readable article_list block,
\* or a listing one of whose entries is malformed (a missing key, a
\* post_publish_time that is not in DT_FMT).
ListResponses == {"ok", "notfound", "garbled", "baditem"}

\* Answers of the source to the request of get_total_page.
PagerResponses == {"ok", "notfound", "timeout"}

\* The answers the source can give for page pn: a page it does not have is
\* never answered with a listing, and only a page with entries can hold a
\* malformed one.
ResponsesFor(pn) ==
    IF pn \notin DOMAIN listing THEN {"notfound", "garbled"}
    ELSE IF listing[pn] = <<>> THEN {"ok", "notfound", "garbled"}
    ELSE ListResponses

\* A get_article_list that yields whatever it finds and never raises.
get_article_list_lenient(resp) == "ok"

\* get_article_list up to its first yield (the generator's first next): the
\* exception raised, "ok" when the article_list block was read.  Without the
\* block re.search returns None and .group raises AttributeError, whatever
\* the reason the block is missing.
get_article_list(resp) ==
    IF resp \in {"ok", "baditem"} THEN "ok" ELSE "AttributeError"

\* get_total_page: the exception of the call, "ok" when total_page is set.
get_total_page(resp) ==
    CASE resp = "notfound" -> "PageNotFound"
      [] resp = "timeout" -> "WaitTimeoutError"
      [] OTHER -> "ok"

\* get_date_range: (articles[0].published.date(), articles[-1].published.date()),
\* that is <<newest, oldest>> of a page in listing order.
get_date_range(articles) == <<articles[1], articles[Len(articles)]>>

\* A search step that moves right on a match.
SearchStepMatchRight(s, e, mid, rng, d) ==
    IF d > rng[1] THEN <<s, mid - 1>>
    ELSE IF d < rng[2] THEN <<mid + 1, e>>
    ELSE <<mid + 1, e>>

\* A search step that skips a page when it moves right.
SearchStepSkip(s, e, mid, rng, d) ==
    IF d > rng[1] THEN <<s, mid - 1>>
    ELSE IF d < rng[2] THEN <<mid + 2, e>>
    ELSE <<s, mid - 1>>

\* A search step that lowers end by one page instead of to mid - 1.
SearchStepLinear(s, e, mid, rng, d) ==
    IF d > rng[1] THEN <<s, e - 1>>
    ELSE IF d < rng[2] THEN <<mid + 1, e>>
    ELSE <<s, e - 1>>

\* A search step that keeps the probed page in the interval (end = mid).
SearchStepKeepMid(s, e, mid, rng, d) ==
    IF d > rng[1] THEN <<s, mid>>
    ELSE IF d < rng[2] THEN <<mid + 1, e>>
    ELSE <<s, mid>>

\* One iteration of the binary search: the new <<start, end>>.  rng is the
\* pair the code names (earliest_date_mid, latest_date_mid), which holds
\* <<newest, oldest>>.
SearchStep(s, e, mid, rng, d) ==
    IF d > rng[1] THEN <<s, mid - 1>>
    ELSE IF d < rng[2] THEN <<mid + 1, e>>
    ELSE <<s, mid - 1>>

\* A window whose upper end is not clamped to total_page.
WindowOfUnclamped(s, e, total) ==
    <<IF s - 1 > 0 THEN s - 1 ELSE 1, e + 1>>

\* start_page, end_page of the window, from the search's final start and end.
WindowOf(s, e, total) ==
    <<IF s - 1 > 0 THEN s - 1 ELSE 1,
      IF e + 1 <= total THEN e + 1 ELSE total>>

----------------------------------------------------------------------------
\* Initial states: a Fetcher just constructed, the generator not yet started.

InitWith(ls) ==
    /\ listing \in ls
    /\ total_page = -1
    /\ pc = "discover"
    /\ start = 0
    /\ end = 0
    /\ start_page = 0
    /\ end_page = 0
    /\ page = 0
    /\ fs = <<>>
    /\ content = {}
    /\ tabs = {}
    /\ out = <<>>
    /\ err = "none"
    /\ probed = <<>>
    /\ fetched = {}
    /\ submitted = <<>>
    /\ failed = {}
    /\ failStage = "none"
    /\ badAt = 0
    /\ lastResp = "none"

InitSearch ==
    /\ InitWith(SearchListings)
    /\ date \in Dates

Init ==
    /\ InitWith(DayListings)
    /\ date \in 0..(Len(listing) + 1)

----------------------------------------------------------------------------
\* The sequential path: discovery and binary search

\* An exception leaves the generator outside the with block.
Raise(e, stage) ==
    /\ pc' = "error"
    /\ err' = e
    /\ failStage' = stage

\* self.get_total_page(), then start, end = 1, self.total_page
Discover ==
    /\ pc = "discover"
    /\ \E resp \in PagerResponses :
         /\ lastResp' = resp
         /\ IF total_page = -1 /\ get_total_page(resp) # "ok"
            THEN /\ Raise(get_total_page(resp), "discover")
                 /\ UNCHANGED <<total_page, start, end>>
            ELSE /\ total_page' = IF total_page = -1 THEN Len(listing) ELSE total_page
                 /\ start' = 1
                 /\ end' = total_page'
                 /\ pc' = "search"
                 /\ UNCHANGED <<err, failStage>>
    /\ UNCHANGED <<listing, date, probed, windowVars, poolVars, out>>

\* One iteration of the while loop: the probe of page mid and the comparison.
Probe ==
    /\ pc = "search"
    /\ start <= end
    /\ LET mid == (start + end) \div 2 IN
       /\ probed' = Append(probed, mid)
       /\ \E resp \in ResponsesFor(mid) :
            /\ lastResp' = resp
            /\ IF get_article_list(resp) # "ok"
               THEN /\ Raise(get_article_list(resp), "search")
                    /\ UNCHANGED <<start, end>>
               ELSE IF resp = "baditem"
               THEN /\ Raise("ValueError", "search")
                    /\ UNCHANGED <<start, end>>
               ELSE IF mid \notin DOMAIN listing \/ listing[mid] = <<>>
               THEN /\ Raise("IndexError", "search")
                    /\ UNCHANGED <<start, end>>
               ELSE LET r == SearchStep(start, end, mid, get_date_range(listing[mid]), date) IN
                    /\ start' = r[1]
                    /\ end' = r[2]
                    /\ UNCHANGED <<pc, err, failStage>>
    /\ UNCHANGED <<listing, date, total_page, windowVars, poolVars, out>>

\* The loop exits; the window is computed and the executor created.
ComputeWindow ==
    /\ pc = "search"
    /\ start > end
    /\ start_page' = WindowOf(start, end, total_page)[1]
    /\ end_page' = WindowOf(start, end, total_page)[2]
    /\ page' = start_page'
    /\ pc' = "fetch"
    /\ UNCHANGED <<listing, date, total_page, searchVars, fetched, poolVars, out,
                   err, failStage, lastResp>>

----------------------------------------------------------------------------
\* The window loop and the executor

Item(i) == <<page, i>>

Running == {i \in DOMAIN fs : fs[i].st = "running"}

Pending == {i \in DOMAIN fs : fs[i].st = "pending"}

\* A result iterator that takes the futures as they complete.
ResultCandidatesAnyDone(f) ==
    {i \in DOMAIN f : f[i].st \in {"done", "exc"}}

\* result_iterator of Executor.map: fs.reverse(), then fs.pop() while fs, so
\* the future waited for is the earliest submitted one not yet popped.
ResultCandidates(f) ==
    LET rem == {i \in DOMAIN f : f[i].st # "popped"} IN
    IF rem = {} THEN {} ELSE {Min(rem)}

\* A get_article_detail that closes the tab on the success path only.
AfterBodyLeak(ok) == IF ok THEN "close" ELSE "return"

\* get_article_detail after the try body: the finally clause closes the tab
\* on the return of the try and on the return of the except alike.
AfterBody(ok) == "close"

SetSt(f, i, st, wpc) == [f EXCEPT ![i] = [st |-> st, wpc |-> wpc]]

\* for page in range(start_page, end_page + 1): self.get_article_list(page),
\* whose first item is asked for by executor.map.
FetchListing ==
    /\ pc = "fetch"
    /\ page <= end_page
    /\ fetched' = fetched \cup {page}
    /\ \E resp \in ResponsesFor(page) :
         /\ lastResp' = resp
         /\ IF get_article_list(resp) # "ok"
            THEN /\ pc' = "raising"
                 /\ err' = get_article_list(resp)
                 /\ failStage' = "window"
                 /\ fs' = fs
                 /\ badAt' = badAt
            ELSE /\ pc' = "submit"
                 /\ fs' = <<>>
                 /\ badAt' \in (IF resp = "baditem" THEN 1..Len(listing[page]) ELSE {0})
                 /\ UNCHANGED <<err, failStage>>
    /\ UNCHANGED <<listing, date, total_page, searchVars, start_page, end_page, page,
                   content, tabs, failed, submitted, out>>

\* The range is exhausted: the with block is left, shutdown(wait=True) finds
\* every future completed, and the generator returns.
LoopExit ==
    /\ pc = "fetch"
    /\ page > end_page
    /\ Running = {}
    /\ pc' = "done"
    /\ UNCHANGED <<listing, date, total_page, searchVars, windowVars, poolVars, out,
                   err, failStage, lastResp>>

\* executor.map: fs = [self.submit(fn, *args) for args in zip(*iterables)],
\* one submit per Article the generator yields.
Submit ==
    /\ pc = "submit"
    /\ Len(fs) < Len(listing[page])
    /\ Len(fs) + 1 # badAt
    /\ fs' = Append(fs, [st |-> "pending", wpc |-> "-"])
    /\ submitted' = Append(submitted, Item(Len(fs) + 1))
    /\ UNCHANGED <<listing, date, total_page, pc, searchVars, windowVars, content, tabs,
                   failed, badAt, out, err, failStage, lastResp>>

\* The generator raises while it builds its next Article (lines 66-71): the
\* exception leaves executor.map inside the list comprehension, so the
\* futures already submitted are not cancelled, and reaches the with block.
SubmitRaise ==
    /\ pc = "submit"
    /\ Len(fs) + 1 = badAt
    /\ pc' = "raising"
    /\ err' = "ValueError"
    /\ failStage' = "window"
    /\ UNCHANGED <<listing, date, total_page, searchVars, windowVars, poolVars, out,
                   lastResp>>

\* executor.map returns its result iterator, which yield from starts to drain.
MapReturn ==
    /\ pc = "submit"
    /\ Len(fs) = Len(listing[page])
    /\ pc' = "results"
    /\ UNCHANGED <<listing, date, total_page, searchVars, windowVars, poolVars, out,
                   err, failStage, lastResp>>

\* The consumer pulls and the future waited for has a result: it is yielded.
Yield ==
    /\ pc = "results"
    /\ \E i \in ResultCandidates(fs) :
         /\ fs[i].st = "done"
         /\ out' = Append(out, [item |-> Item(i), content |-> Item(i) \in content])
         /\ fs' = SetSt(fs, i, "popped", "-")
    /\ UNCHANGED <<listing, date, total_page, pc, searchVars, windowVars, content, tabs,
                   failed, submitted, badAt, err, failStage, lastResp>>

\* The future waited for holds an exception: result() raises it, the finally
\* of the result iterator cancels the futures not yet popped, and the
\* exception reaches the with block.
ResultRaise ==
    /\ pc = "results"
    /\ \E i \in ResultCandidates(fs) :
         /\ fs[i].st = "exc"
         /\ fs' = [j \in DOMAIN fs |->
                     IF j = i THEN [st |-> "popped", wpc |-> "-"]
                     ELSE IF fs[j].st = "pending" THEN [st |-> "cancelled", wpc |-> "-"]
                     ELSE fs[j]]
    /\ pc' = "raising"
    /\ err' = "TabError"
    /\ UNCHANGED <<listing, date, total_page, searchVars, windowVars, content, tabs,
                   failed, submitted, badAt, out, failStage, lastResp>>

\* The result iterator is exhausted: the for loop goes on to the next page.
NextPage ==
    /\ pc = "results"
    /\ ResultCandidates(fs) = {}
    /\ page' = page + 1
    /\ pc' = "fetch"
    /\ UNCHANGED <<listing, date, total_page, searchVars, start_page, end_page, fetched,
                   poolVars, out, err, failStage, lastResp>>

\* ThreadPoolExecutor.__exit__ on an exception: shutdown(wait=True) joins the
\* workers, which first drain the queue, then the exception leaves the
\* generator.
Shutdown ==
    /\ pc = "raising"
    /\ Running = {}
    /\ Pending = {}
    /\ pc' = "error"
    /\ UNCHANGED <<listing, date, total_page, searchVars, windowVars, poolVars, out,
                   err, failStage, lastResp>>

----------------------------------------------------------------------------
\* The workers: get_article_detail

\* A pool that starts a thread for every work item.
IdleWorkerUnbounded == TRUE

\* A worker thread is free: the pool has at most max_workers threads, each
\* running one work item at a time.
IdleWorker == Cardinality(Running) < max_workers

\* A free worker takes the next work item of the queue (FIFO).
WorkerTake ==
    /\ Pending # {}
    /\ IdleWorker
    /\ fs' = SetSt(fs, Min(Pending), "running", "new_tab")
    /\ UNCHANGED <<listing, date, total_page, pc, searchVars, windowVars, content, tabs,
                   failed, submitted, badAt, out, err, failStage, lastResp>>

\* A detail fetch that writes the content into every Article of the page up
\* to its own (the Articles aliasing one object).
ContentAfterAliased(c, it, ok) ==
    IF ok THEN c \cup {<<it[1], j>> : j \in 1..it[2]} ELSE c

\* article.content = new_tab.ele("@class:newstext").text, the last statement
\* of the try that can fail: the content is assigned on success only, and to
\* the call's own article.
ContentAfter(c, it, ok) == IF ok THEN c \cup {it} ELSE c

\* new_tab = self.page.new_tab(), before the try: its exception leaves the
\* call and becomes the exception of the future.
WorkerNewTab ==
    \E i \in Running :
      /\ fs[i].wpc = "new_tab"
      /\ \E ok \in BOOLEAN :
           IF ok
           THEN /\ tabs' = tabs \cup {Item(i)}
                /\ fs' = SetSt(fs, i, "running", "body")
                /\ failed' = failed
           ELSE /\ fs' = SetSt(fs, i, "exc", "-")
                /\ failed' = failed \cup {Item(i)}
                /\ tabs' = tabs
      /\ UNCHANGED <<listing, date, total_page, pc, searchVars, windowVars, content,
                     submitted, badAt, out, err, failStage, lastResp>>

\* The try body: get, wait.ele_displayed, article.content = ...; any
\* exception is caught by the bare except.
WorkerBody ==
    \E i \in Running :
      /\ fs[i].wpc = "body"
      /\ \E ok \in BOOLEAN :
           /\ content' = ContentAfter(content, Item(i), ok)
           /\ failed' = IF ok THEN failed ELSE failed \cup {Item(i)}
           /\ fs' = IF AfterBody(ok) = "close"
                    THEN SetSt(fs, i, "running", "close")
                    ELSE SetSt(fs, i, "done", "-")
      /\ UNCHANGED <<listing, date, total_page, pc, searchVars, windowVars, tabs,
                     submitted, badAt, out, err, failStage, lastResp>>

\* finally: new_tab.close(); the article is returned and the future completes.
WorkerClose ==
    \E i \in Running :
      /\ fs[i].wpc = "close"
      /\ tabs' = tabs \ {Item(i)}
      /\ fs' = SetSt(fs, i, "done", "-")
      /\ UNCHANGED <<listing, date, total_page, pc, searchVars, windowVars, content,
                     failed, submitted, badAt, out, err, failStage, lastResp>>

----------------------------------------------------------------------------

NextSearch == Discover \/ Probe \/ ComputeWindow

SpecSearch == InitSearch /\ [][NextSearch]_vars

Next ==
    \/ Discover
    \/ Probe
    \/ ComputeWindow
    \/ FetchListing
    \/ LoopExit
    \/ Submit
    \/ SubmitRaise
    \/ MapReturn
    \/ Yield
    \/ ResultRaise
    \/ NextPage
    \/ Shutdown
    \/ WorkerTake
    \/ WorkerNewTab
    \/ WorkerBody
    \/ WorkerClose

Spec == Init /\ [][Next]_vars

\* Every request returns or fails, the workers are scheduled and the consumer
\* keeps pulling: no step that can be taken is put off for ever.
SpecFair == Init /\ [][Next]_vars /\ WF_vars(Next)

\* A source of one page with PoolItems items, more than the pool has workers.
InitPool ==
    /\ InitWith({<<[i \in 1..PoolItems |-> 1]>>})
    /\ date = 1

SpecPool == InitPool /\ [][Next]_vars

----------------------------------------------------------------------------
\* Notions the properties are stated in

Max2(a, b) == IF a >= b THEN a ELSE b

Min2(a, b) == IF a <= b THEN a ELSE b

Newest(p) == listing[p][1]

Oldest(p) == listing[p][Len(listing[p])]

\* Every page has an item, newest >= oldest on each page, and newest and
\* oldest do not increase as the page ordinal grows.
ReverseChronological ==
    /\ \A p \in DOMAIN listing : listing[p] # <<>> /\ Newest(p) >= Oldest(p)
    /\ \A p, q \in DOMAIN listing :
         p < q => Newest(p) >= Newest(q) /\ Oldest(p) >= Oldest(q)

Containing == {p \in DOMAIN listing : Oldest(p) <= date /\ date <= Newest(p)}

NewerThanPage == {p \in DOMAIN listing : date > Newest(p)}

Boundary ==
    IF Containing # {} THEN Min(Containing)
    ELSE IF NewerThanPage # {} THEN Min(NewerThanPage)
    ELSE Len(listing) + 1

\* The while loop has been left (start and end are 0 before the search).
SearchEnded == start > end

RunEnded == pc \in {"done", "error"}

OutItems == [k \in 1..Len(out) |-> out[k].item]

ItemBefore(a, b) == a[1] < b[1] \/ (a[1] = b[1] /\ a[2] < b[2])

\* The items of the pages of the window.
WindowItems ==
    UNION {{<<p, i>> : i \in 1..Len(listing[p])} : p \in start_page..end_page}

\* The latest request on the listing session was a get_article_list call that
\* the source answered with resp.
ListAnswered(resp) == (probed # <<>> \/ fetched # {}) /\ lastResp = resp

\* Discovery or the latest probe of the search has failed.
SearchSideFailure ==
    /\ fetched = {}
    /\ \/ lastResp \notin {"ok", "none"}
       \/ probed # <<>> /\ listing[probed[Len(probed)]] = <<>>

\* Items whose get_article_detail call holds a tab.
InFlight == {Item(i) : i \in {j \in Running : fs[j].wpc \in {"body", "close"}}}


\* A request of the listing of a window page has failed: the source's
\* answer was no listing, or the generator raised on an entry.
WindowListingFailure ==
    /\ fetched # {}
    /\ \/ lastResp \in {"notfound", "garbled"}
       \/ lastResp = "baditem" /\ pc \notin {"submit"}

\* Workers inside self.page.new_tab(), a call on the shared listing session.
SessionWorkers == {i \in Running : fs[i].wpc = "new_tab"}

RECURSIVE FloorLog2(_)
FloorLog2(n) == IF n <= 1 THEN 0 ELSE 1 + FloorLog2(n \div 2)

----------------------------------------------------------------------------
\* Properties

\* C1: under a reverse-chronological listing of at least one page the search
\* ends with start equal to the smallest page containing the target date, or
\* to the insertion boundary when no page contains it.
C1_BoundaryExact ==
    (SearchEnded /\ total_page >= 1 /\ ReverseChronological) => start = Boundary

\* The target date occurs on page 3 only and the search ended at 3.
C1_Witness ==
    SearchEnded /\ ReverseChronological /\ Containing = {3} /\ start = 3

\* C2: a run that completes has fetched, for detail retrieval, exactly the
\* pages of [max(1, b-1), min(totalPages, b+1)], b the boundary.
C2_WindowAroundBoundary ==
    (pc = "done" /\ total_page >= 1) =>
        fetched = Max2(1, start - 1)..Min2(total_page, start + 1)

\* C3: the items are yielded in submission order, pages ascending and listing
\* order within a page, and a completed run has yielded each submitted item
\* exactly once.
C3_SubmissionOrder ==
    /\ Len(out) <= Len(submitted)
    /\ OutItems = SubSeq(submitted, 1, Len(out))
    /\ \A j, k \in 1..Len(out) : j < k => ItemBefore(out[j].item, out[k].item)
    /\ pc = "done" => OutItems = submitted

\* A later item of the page has completed while an earlier one is still
\* running, after items of the page before were yielded.
C3_Witness ==
    /\ pc = "results"
    /\ out # <<>>
    /\ \E i, j \in DOMAIN fs : i < j /\ fs[i].st = "running" /\ fs[j].st = "done"

\* C4: when only detail fetches fail, the run ends without raising, having
\* yielded every item of the window, the failing ones with empty content and
\* the others with content.
C4_DetailFailureNotFatal ==
    (RunEnded /\ failed # {} /\ failStage = "none") =>
        /\ pc = "done"
        /\ {out[k].item : k \in 1..Len(out)} = WindowItems
        /\ \A k \in 1..Len(out) : out[k].content = (out[k].item \notin failed)

\* C5: a failure of discovery or of a probe (an empty probed page included)
\* ends the run with an error, no item yielded, no detail fetch started.
C5_SearchFailureAborts ==
    SearchSideFailure =>
        /\ pc = "error"
        /\ err # "none"
        /\ out = <<>>
        /\ submitted = <<>>
        /\ fs = <<>>
        /\ tabs = {}

\* The second probe of a search met a page without items.
C5_Witness ==
    /\ pc = "error"
    /\ err = "IndexError"
    /\ Len(probed) >= 2
    /\ out = <<>>

C7_DetailNeverRaises ==
    \A i \in DOMAIN fs :
        /\ fs[i].st # "exc"
        /\ (fs[i].st = "done" /\ Item(i) \in failed) => Item(i) \notin content

\* C8: the open detail tabs are exactly those of the calls between new_tab
\* and close, and none is open once the run has ended.
C8_TabsReleased ==
    /\ tabs = InFlight
    /\ RunEnded => tabs = {}

\* A run has completed in which a detail fetch failed and another succeeded.
C8_Witness ==
    pc = "done" /\ failed # {} /\ content # {} /\ tabs = {}

\* C9: a get_article_list call answered with the no-such-page indication
\* fails with PageNotFound.
C9_ListPageNotFound ==
    ListAnswered("notfound") => err = "PageNotFound"

\* C10: for totalPages >= 1 and any listing, the search exits with
\* end = start - 1 and 1 <= start <= totalPages + 1.
C10_ExitBounds ==
    (SearchEnded /\ total_page >= 1) =>
        /\ end = start - 1
        /\ 1 <= start
        /\ start <= total_page + 1

\* A search over a listing that is not reverse-chronological ended past the
\* last page.
C10_Witness ==
    /\ SearchEnded
    /\ total_page >= 2
    /\ \A p \in DOMAIN listing : listing[p] # <<>>
    /\ ~ReverseChronological
    /\ start = total_page + 1

\* C11: for totalPages >= 1 the window computed after any search satisfies
\* 1 <= start_page <= end_page <= total_page and contains the boundary page
\* when the boundary is at most total_page.
C11_WindowClamped ==
    (pc = "fetch" /\ total_page >= 1) =>
        /\ 1 <= start_page
        /\ start_page <= end_page
        /\ end_page <= total_page
        /\ start <= total_page => (start_page <= start /\ start <= end_page)

\* The search ended past the last page and the window was clamped to it.
C11_Witness ==
    pc = "fetch" /\ total_page >= 2 /\ start = total_page + 1 /\ end_page = total_page

\* C12: once the listing fetch of a window page has failed, the run is
\* raising or ended in error, no page after it has been requested, no item of
\* it has been submitted, and every item submitted has already been yielded.
C12_ListingFailureAborts ==
    WindowListingFailure =>
        /\ pc \in {"raising", "error"}
        /\ \A p \in fetched : p <= page
        /\ \A k \in 1..Len(submitted) : submitted[k][1] < page
        /\ OutItems = submitted
        /\ Running = {}
        /\ Pending = {}

\* C13: under fair scheduling every run eventually ends, either completed
\* with every item of the window yielded or with an error.
C13_RunEnds ==
    <>(\/ pc = "done" /\ {out[k].item : k \in 1..Len(out)} = WindowItems
       \/ pc = "error")

\* A run has completed with two items yielded, one of them without content.
C13_Witness ==
    pc = "done" /\ Len(out) >= 2 /\ failed # {} /\ content # {}

\* C14: a search over total_page >= 1 pages requests at most
\* floor(log2(total_page)) + 1 listings.
C14_ProbeCount ==
    total_page >= 1 => Len(probed) <= FloorLog2(total_page) + 1

\* A search over a listing that is not reverse-chronological ended after
\* floor(log2(total_page)) + 1 probes.
C14_Witness ==
    /\ SearchEnded
    /\ total_page >= 2
    /\ ~ReverseChronological
    /\ Len(probed) = FloorLog2(total_page) + 1

\* C15: no page ordinal is probed twice, and while the search goes on every
\* probed page lies outside the interval start..end that is kept.
C15_NoPageProbedTwice ==
    /\ \A j, k \in 1..Len(probed) : j < k => probed[j] # probed[k]
    /\ pc # "error" => \A k \in 1..Len(probed) : probed[k] \notin start..end

\* Page 2 was probed and the search goes on in an interval without it.
C15_Witness ==
    pc = "search" /\ start <= end /\ Len(probed) = 1 /\ probed[1] = 2

\* C16: at most 4 get_article_detail calls execute at the same time.
C16_AtMostFourWorkers == Cardinality(Running) <= 4

\* Four calls execute while a fifth item of the page waits in the queue.
C16_Witness == Cardinality(Running) = 4 /\ Pending # {}

\* C17: the shared listing session is operated on by the sequential path
\* only, so at no time do two threads operate on it: never are two workers
\* inside a call on it.
C17_ListingSessionExclusive == Cardinality(SessionWorkers) <= 1

\* C18: each item is submitted to one detail fetch only, content is held
\* only by submitted items, and the content of a yielded item is still what
\* it was when the item was yielded.
C18_ContentWrittenOnce ==
    /\ \A j, k \in 1..Len(submitted) : j < k => submitted[j] # submitted[k]
    /\ \A it \in content : \E k \in 1..Len(submitted) : submitted[k] = it
    /\ \A k \in 1..Len(out) : out[k].content = (out[k].item \in content)

\* An item was yielded without content and a later detail fetch has since
\* assigned the content of its own item.
C18_Witness ==
    \E k \in 1..Len(out) :
        /\ ~out[k].content
        /\ \E it \in content : ItemBefore(out[k].item, it) /\ it \notin {out[j].item : j \in 1..Len(out)}

\* C19: under a reverse-chronological listing, whenever the loop condition
\* is evaluated every page before start has target < oldest and every page
\* after end has target >= oldest.
C19_LoopInvariant ==
    (total_page >= 1 /\ ReverseChronological) =>
        /\ \A p \in 1..(start - 1) : p <= total_page => date < Oldest(p)
        /\ \A p \in (end + 1)..total_page : date >= Oldest(p)

\* The search has moved right past two pages and goes on.
C19_Witness ==
    pc = "search" /\ ReverseChronological /\ start = 3 /\ start <= end

\* C20: while the sequential path is at a listing request (discovery, a
\* probe, the listing of a window page) no detail fetch is queued, running or
\* holding a tab, and every item submitted so far has been yielded.
C20_NoNavigationDuringDetail ==
    pc \in {"discover", "search", "fetch"} =>
        /\ Running = {}
        /\ Pending = {}
        /\ tabs = {}
        /\ OutItems = submitted

\* The second page of the window is about to be requested after the items
\* of the first were yielded.
C20_Witness ==
    pc = "fetch" /\ page > start_page /\ page <= end_page /\ out # <<>>

====
